---- MODULE Spec2Model ----
(***************************************************************************)
(* A model of the 0x-api gateway: application start-up (src/app.ts and     *)
(* the HTTP service runner), the GET /swap/quote handler                   *)
(* (src/handlers/swap_handlers.ts) and the swap service it calls           *)
(* (src/services/swap_service.ts).  The quoting library, the calldata      *)
(* consumer and the Ethereum node are opaque collaborators: each call to   *)
(* one of them is a step whose outcome is chosen from a small set.          *)
(***************************************************************************)
EXTENDS Integers, Sequences, FiniteSets, TLC

\* The JavaScript value undefined.
Undefined == "undefined"

(***************************************************************************)
(* Bounds of the model.                                                    *)
(***************************************************************************)
\* Largest token amount (sellAmount, buyAmount, ethAmount, balance) drawn.
MaxAmount == 1
\* Gas figures the quoter and the node report: 0 .. MaxGas times GasUnit.
MaxGas == 1
GasUnit == 7
\* Largest value Date.now() / ONE_SECOND_MS takes.
MaxClock == 1

\* Largest maker or taker amount of a quote info.
MaxQuoteAmount == 2
\* Largest number of decimals a token contract reports to the node.
MaxDecimals == 2
\* Largest number of sources in a quoter's source breakdown.
MaxBreakdownEntries == 2
\* Largest number of tokens in TokenMetadatasForChains.
MaxTokens == 22

Amounts == 0 .. MaxAmount
QuoteAmounts == 1 .. MaxQuoteAmount
FetchedDecimals == 0 .. MaxDecimals
GasValues == {GasUnit * i : i \in 0 .. MaxGas}
ClockValues == 0 .. MaxClock

VARIABLES
    \* ---- application start-up ----
    MESH_WEBSOCKET_URI,   \* config.MESH_WEBSOCKET_URI: Undefined or a string
    appPc,                \* position of the start-up code
    dependencies,         \* the AppDependencies object, Undefined before it exists
    routes,               \* the routes and middleware registered on the express app
    serverListening,      \* app.listen was called and the process is alive
    websocketService,     \* a WebsocketService was constructed
    orderWatcher,         \* "not_started" | "running" | "failed"
    processExited,        \* process.exit was called
    appReturned,          \* getAppAsync resolved with the app
    logs,                 \* logger calls of the start-up code, in order
    \* ---- one GET /swap/quote request ----
    hPc,                  \* position of getSwapQuoteAsync: "idle" | "awaiting" | "done"
    req,                  \* the request being handled
    responses,            \* responses sent for the request: [status, body]
    thrown,               \* errors the handler threw to the error handler
    serviceCalls,         \* SwapService methods invoked, in order
    \* ---- the swap service call in flight ----
    sPc,                  \* position of the service method
    params,               \* CalculateSwapQuoteParams of the call
    quoterCalls,          \* calls made to the SwapQuoter, in order
    consumerCalls,        \* calls made to the SwapQuoteConsumer, in order
    nodeRequests,         \* requests sent to the Ethereum node, in order
    gasPriceCalls,        \* calls to the gas price estimator (ProtocolFeeUtils)
    swapQuote,            \* the quoter's quote
    calldata,             \* [calldataHexString, ethAmount, toAddress] of the consumer
    affiliatedData,       \* calldata with the affiliate suffix
    balanceInWei,         \* the node's answer to getBalanceInWeiAsync(from)
    buyTokenDecimals,     \* const buyTokenDecimals, once assigned
    sellTokenDecimals,    \* const sellTokenDecimals, once assigned
    txDataValue,          \* value used in the simulated transaction
    estimateGasPromise,   \* estimateGasAsync(txData).catch(_e => 0)
    callPromise,          \* callAsync(txData) of the revert detection
    serviceResult,        \* settled result of the service call
    \* ---- the process ----
    unhandledRejections,  \* promises that rejected with no handler attached
    \* ---- _convertSourceBreakdownToArray called on its own ----
    sourceBreakdown,      \* the argument: the quoter's SwapQuoteOrdersBreakdown
    sources,              \* what the call returned
    \* ---- getTokenPricesAsync called on its own ----
    tokenMetadatas,       \* TokenMetadatasForChains, the token list of the build
    sellToken,            \* the argument: the TokenMetadata of the sell token
    pricesPc,             \* position of the call: "idle" | "awaiting" | "done"
    queryAssetData,       \* const queryAssetData
    batchCalls,           \* the getBatchMarketBuySwapQuoteForAssetDataAsync calls, one per chunk
    allResults,           \* const allResults
    prices                \* settled result of the call

appVars == <<MESH_WEBSOCKET_URI, appPc, dependencies, routes, serverListening,
             websocketService, orderWatcher, processExited, appReturned, logs>>
handlerVars == <<hPc, req, responses, thrown, serviceCalls>>
serviceVars == <<sPc, params, quoterCalls, consumerCalls, nodeRequests, gasPriceCalls,
                 swapQuote, calldata, affiliatedData, balanceInWei, buyTokenDecimals,
                 sellTokenDecimals, txDataValue, estimateGasPromise, callPromise, serviceResult>>
processVars == <<unhandledRejections>>
sourcesVars == <<sourceBreakdown, sources>>
pricesVars == <<tokenMetadatas, sellToken, pricesPc, queryAssetData, batchCalls,
                allResults, prices>>
functionVars == <<sourcesVars, pricesVars>>
vars == <<appVars, handlerVars, serviceVars, processVars, functionVars>>

\* A record-valued variable that holds nothing yet.
None == [none |-> TRUE]

\* An optional number: <<>> is undefined, <<n>> is the number n.
UndefinedNum == <<>>
Num(n) == <<n>>
Val(x) == x[1]
OptionalAmounts == {UndefinedNum} \cup {Num(n) : n \in Amounts}

(***************************************************************************)
(* Application start-up: getDefaultAppDependenciesAsync, getAppAsync and   *)
(* runHttpServiceAsync.                                                    *)
(***************************************************************************)
\* Values of config.MESH_WEBSOCKET_URI: absent, the empty string, a URI.
MeshUris == {Undefined, "", "ws://mesh"}

\* let meshClient; if (config.MESH_WEBSOCKET_URI !== undefined) meshClient = new MeshClient(...)
createMeshClientAlways(uri) == "meshClient"
createMeshClient(uri) == IF uri # Undefined THEN "meshClient" ELSE Undefined

\* getDefaultAppDependenciesAsync: connects to the database, builds the services.
\* dbOk: getDBConnectionAsync resolved; swapOk: the SwapService constructor did not throw.
GetDefaultAppDependencies ==
    /\ appPc = "start"
    /\ \E dbOk \in BOOLEAN, swapOk \in BOOLEAN :
         IF ~dbOk
         THEN /\ appPc' = "failed"
              /\ UNCHANGED <<dependencies, logs>>
         ELSE LET meshClient == createMeshClient(MESH_WEBSOCKET_URI) IN
              /\ dependencies' =
                    [ connection |-> "connection",
                      stakingDataService |-> "stakingDataService",
                      meshClient |-> meshClient,
                      orderBookService |-> "orderBookService",
                      swapService |-> IF swapOk THEN "swapService" ELSE Undefined,
                      provider |-> "provider",
                      websocketOpts |-> "websocketOpts" ]
              /\ logs' = logs
                    \o (IF MESH_WEBSOCKET_URI # Undefined THEN <<>>
                        ELSE << <<"warn", "Skipping Mesh client creation because no URI provided">> >>)
                    \o (IF swapOk THEN <<>> ELSE << <<"error", "swap service">> >>)
              /\ appPc' = "deps"
    /\ UNCHANGED <<MESH_WEBSOCKET_URI, routes, serverListening, websocketService,
                   orderWatcher, processExited, appReturned>>
    /\ UNCHANGED <<handlerVars, serviceVars, processVars, functionVars>>

\* The routes runHttpServiceAsync registers for the given dependencies.
RegisteredRoutes(deps) ==
    {"requestLogger", "cors", "bodyParser", "/", "staking", "sra",
     "meta_transaction/fill", "errorHandler"}
      \cup (IF deps.swapService # Undefined THEN {"swap"} ELSE {})

\* The end of runHttpServiceAsync: with a mesh client the websocket service is
\* built and the server returned; without one the process exits.
ExitsWithoutMesh(deps) == deps.meshClient = Undefined

\* getAppAsync up to its first await: express() and runHttpServiceAsync(dependencies, config, app).
RunHttpService ==
    /\ appPc = "deps"
    /\ routes' = RegisteredRoutes(dependencies)
    /\ IF ExitsWithoutMesh(dependencies)
       THEN /\ processExited' = TRUE
            /\ serverListening' = FALSE
            /\ websocketService' = FALSE
            /\ appPc' = "exited"
            /\ logs' = logs
                 \o << <<"error", "API running without meta transactions service">> >>
                 \o (IF dependencies.swapService # Undefined THEN <<>>
                     ELSE << <<"error", "API running without swap service">> >>)
                 \o << <<"error", "Could not establish mesh connection, exiting">> >>
       ELSE /\ processExited' = FALSE
            /\ serverListening' = TRUE
            /\ websocketService' = (dependencies.meshClient # Undefined)
            /\ appPc' = "http"
            /\ logs' = logs
                 \o << <<"error", "API running without meta transactions service">> >>
                 \o (IF dependencies.swapService # Undefined THEN <<>>
                     ELSE << <<"error", "API running without swap service">> >>)
    /\ UNCHANGED <<MESH_WEBSOCKET_URI, dependencies, orderWatcher, appReturned>>
    /\ UNCHANGED <<handlerVars, serviceVars, processVars, functionVars>>

\* if (dependencies.meshClient !== undefined) in getAppAsync
StartsOrderWatcher(deps) == deps.meshClient # Undefined

\* Whether getAppAsync reaches return app after the order watcher settled:
\* try { await runOrderWatcherServiceAsync(...) } catch (e) { logger.error(...) }
AppReturnsOnlyIfWatcherOk(watcherOk) == watcherOk
AppReturnsAfterOrderWatcher(watcherOk) == TRUE

\* The rest of getAppAsync: the order watcher, whose failure is caught and logged,
\* then return app.  watcherOk: runOrderWatcherServiceAsync resolved.
RunOrderWatcherService ==
    /\ appPc = "http"
    /\ \E watcherOk \in BOOLEAN :
         /\ IF StartsOrderWatcher(dependencies)
            THEN IF watcherOk
                 THEN /\ orderWatcher' = "running"
                      /\ logs' = logs
                 ELSE /\ orderWatcher' = "failed"
                      /\ logs' = Append(logs, <<"error", "Error attempting to start Order Watcher service">>)
            ELSE /\ orderWatcher' = orderWatcher
                 /\ logs' = Append(logs, <<"warn", "No mesh client provided, API running without Order Watcher">>)
         /\ appReturned' = (~StartsOrderWatcher(dependencies)
                             \/ AppReturnsAfterOrderWatcher(watcherOk))
         /\ appPc' = IF appReturned' THEN "returned" ELSE "failed"
    /\ UNCHANGED <<MESH_WEBSOCKET_URI, dependencies, routes, serverListening,
                   websocketService, processExited>>
    /\ UNCHANGED <<handlerVars, serviceVars, processVars, functionVars>>

(***************************************************************************)
(* Tokens.  A request names a token by symbol or by address.               *)
(***************************************************************************)
ETH_SYMBOL == "ETH"
WETH_SYMBOL == "WETH"
WETH_ADDRESS == "0xweth"
DAI_ADDRESS == "0xdai"
USDC_ADDRESS == "0xusdc"
\* The address of a token that is not in the token list.
UNMAPPED_ADDRESS == "0xunmapped"
\* A symbol of the token list, the WETH address, a symbol not in the list.
TokenInputs == {ETH_SYMBOL, WETH_SYMBOL, WETH_ADDRESS, "DAI", "XYZ"}

isTokenAddress(t) == t \in {WETH_ADDRESS, DAI_ADDRESS}
isETHSymbol(t) == t = ETH_SYMBOL
isWETHSymbolOrAddress(t) == t \in {WETH_SYMBOL, WETH_ADDRESS}
\* findTokenAddress: an address is returned as it is, ETH is looked up as WETH,
\* a symbol of the token list gives its address, any other symbol throws.
findTokenAddressThrows(t) == ~isTokenAddress(t) /\ t \notin {ETH_SYMBOL, WETH_SYMBOL, "DAI"}
findTokenAddress(t) ==
    IF isTokenAddress(t) THEN t
    ELSE IF t \in {ETH_SYMBOL, WETH_SYMBOL} THEN WETH_ADDRESS
    ELSE DAI_ADDRESS

\* findTokenDecimalsIfExists: the decimals of a token of the token list,
\* undefined for any other address.  The 18 and 6 decimals of the list are
\* written 2 and 1, so that 10^decimals stays a number TLC computes with.
findTokenDecimalsIfExists(address) ==
    IF address \in {WETH_ADDRESS, DAI_ADDRESS} THEN Num(2)
    ELSE IF address = USDC_ADDRESS THEN Num(1)
    ELSE UndefinedNum
\* DEFAULT_TOKEN_DECIMALS (18), on the same scale.
DEFAULT_TOKEN_DECIMALS == 2

(***************************************************************************)
(* Errors.  A message is a sequence of words, so that startsWith is a      *)
(* prefix test.  A thrown value that is no Error has no message.           *)
(***************************************************************************)
InsufficientAssetLiquidity == <<"INSUFFICIENT_ASSET_LIQUIDITY">>
AssetUnavailable == <<"ASSET_UNAVAILABLE">>
NoOptimalPath == <<"NO_OPTIMAL_PATH">>
AmountRequiredMessage == <<"sellAmount", "or", "buyAmount", "required">>

startsWith(message, prefix) ==
    /\ Len(message) >= Len(prefix)
    /\ SubSeq(message, 1, Len(prefix)) = prefix

\* new Error(message)
Error(message) ==
    [ kind |-> "Error", isAPIError |-> FALSE, isRevertError |-> FALSE,
      hasMessage |-> TRUE, message |-> message ]

\* What a collaborator (quoter, consumer, node, gas price estimator) may throw:
\* API errors, revert errors, plain Errors with the messages the handler tests
\* for, and a value that is no Error (a rejected string).
UpstreamMessages ==
    { InsufficientAssetLiquidity,
      InsufficientAssetLiquidity \o <<"for", "DAI">>,
      <<"x">> \o InsufficientAssetLiquidity,
      NoOptimalPath,
      AssetUnavailable \o <<"DAI">>,
      <<"boom">> }
UpstreamErrors ==
    { [ kind |-> "upstream", isAPIError |-> a, isRevertError |-> r,
        hasMessage |-> TRUE, message |-> <<"boom">> ] : a \in BOOLEAN, r \in BOOLEAN }
    \cup { [ kind |-> "upstream", isAPIError |-> FALSE, isRevertError |-> FALSE,
             hasMessage |-> TRUE, message |-> m ] : m \in UpstreamMessages }
    \cup { [ kind |-> "upstream", isAPIError |-> FALSE, isRevertError |-> FALSE,
             hasMessage |-> FALSE, message |-> <<>> ] }

\* The revert error _throwIfCallIsRevertErrorAsync throws: decoded from the
\* thrown error or from the returned data.
RevertError(from) ==
    [ kind |-> "RevertError", isAPIError |-> FALSE, isRevertError |-> TRUE,
      hasMessage |-> TRUE, message |-> <<"revert">>, decodedFrom |-> from ]

\* new ValidationError(entries): HTTP 400, reason 'Validation Failed'.
ValidationError(entries) ==
    [ kind |-> "ValidationError", isAPIError |-> TRUE, isRevertError |-> FALSE,
      hasMessage |-> TRUE, message |-> <<"Validation Failed">>,
      statusCode |-> 400, reason |-> "Validation Failed", validationErrors |-> entries ]

\* new RevertAPIError(e)
RevertAPIError(e) ==
    [ kind |-> "RevertAPIError", isAPIError |-> TRUE, isRevertError |-> TRUE,
      hasMessage |-> TRUE, message |-> e.message, statusCode |-> 400, cause |-> e ]

\* new InternalServerError(message)
InternalServerError(message) ==
    [ kind |-> "InternalServerError", isAPIError |-> TRUE, isRevertError |-> FALSE,
      hasMessage |-> TRUE, message |-> message, statusCode |-> 500 ]

\* The TypeError of calling startsWith on the undefined message of a thrown
\* value that is no Error.
TypeError ==
    [ kind |-> "TypeError", isAPIError |-> FALSE, isRevertError |-> FALSE,
      hasMessage |-> TRUE, message |-> <<"Cannot", "read", "property", "startsWith", "of", "undefined">> ]

(***************************************************************************)
(* GET /swap/quote: getSwapQuoteAsync.                                     *)
(***************************************************************************)
Requests ==
    [ schemaValid : BOOLEAN,
      sellToken : TokenInputs,
      buyToken : TokenInputs,
      sellAmount : OptionalAmounts,
      buyAmount : OptionalAmounts,
      takerAddress : {Undefined, "0xtaker"},
      gasPrice : {UndefinedNum, Num(1)},
      affiliateAddress : {Undefined, "0xaffiliate"} ]

isWrap(r) == isETHSymbol(r.sellToken) /\ isWETHSymbolOrAddress(r.buyToken)
isUnwrap(r) == isWETHSymbolOrAddress(r.sellToken) /\ isETHSymbol(r.buyToken)

\* if (!isUnwrap && !isWrap && sellTokenAddress === buyTokenAddress)
SameTokenRejectedAlsoForWeth(r) ==
    findTokenAddress(r.sellToken) = findTokenAddress(r.buyToken)
SameTokenRejected(r) ==
    ~isUnwrap(r) /\ ~isWrap(r) /\ findTokenAddress(r.sellToken) = findTokenAddress(r.buyToken)

\* if (!isWETHSymbolOrAddress(sellToken, CHAIN_ID) && isETHSymbol(buyToken))
BuyEthRejectedNever(r) == FALSE
BuyEthRejected(r) == ~isWETHSymbolOrAddress(r.sellToken) /\ isETHSymbol(r.buyToken)

\* The error parsing and validation throw for request r, None when they pass.
ValidationFailure(r) ==
    IF ~r.schemaValid
    THEN ValidationError(<< [field |-> "query", code |-> "schema", reason |-> <<"schema">>] >>)
    ELSE IF findTokenAddressThrows(r.sellToken)
    THEN ValidationError(<< [field |-> "sellToken", code |-> "ValueOutOfRange",
                             reason |-> <<"Could", "not", "find", "token", r.sellToken>>] >>)
    ELSE IF findTokenAddressThrows(r.buyToken)
    THEN ValidationError(<< [field |-> "buyToken", code |-> "ValueOutOfRange",
                             reason |-> <<"Could", "not", "find", "token", r.buyToken>>] >>)
    ELSE IF SameTokenRejected(r)
    THEN ValidationError(
           [ i \in 1..2 |->
               [ field |-> <<"buyToken", "sellToken">>[i], code |-> "RequiredField",
                 reason |-> <<"buyToken", "and", "sellToken", "must", "be", "different">> ] ])
    ELSE IF BuyEthRejected(r)
    THEN ValidationError(<< [field |-> "buyToken", code |-> "TokenNotSupported",
                             reason |-> <<"Buying", "ETH", "is", "unsupported">>] >>)
    ELSE None

\* const calculateSwapQuoteParams = { ... }
CalculateSwapQuoteParams(r) ==
    [ buyTokenAddress |-> findTokenAddress(r.buyToken),
      sellTokenAddress |-> findTokenAddress(r.sellToken),
      buyAmount |-> r.buyAmount,
      sellAmount |-> r.sellAmount,
      from |-> r.takerAddress,
      isETHSell |-> isETHSymbol(r.sellToken),
      gasPrice |-> r.gasPrice,
      affiliateAddress |-> r.affiliateAddress ]

\* The SwapService method the try block calls.
SelectedMethodSwapOnly(r) == "calculateSwapQuoteAsync"
SelectedMethod(r) ==
    IF isUnwrap(r) THEN "getSwapQuoteForUnwrapAsync"
    ELSE IF isWrap(r) THEN "getSwapQuoteForWrapAsync"
    ELSE "calculateSwapQuoteAsync"

\* field: buyAmount ? 'buyAmount' : 'sellAmount' (a BigNumber is always truthy)
LiquidityErrorFieldSell(buyAmount) == "sellAmount"
LiquidityErrorField(buyAmount) ==
    IF buyAmount # UndefinedNum THEN "buyAmount" ELSE "sellAmount"

\* The catch block: the error the handler throws for the error e of the service.
Catch(e, buyAmount) ==
    IF e.isAPIError THEN e
    ELSE IF e.isRevertError THEN RevertAPIError(e)
    ELSE IF ~e.hasMessage THEN TypeError
    ELSE IF startsWith(e.message, InsufficientAssetLiquidity)
            \/ startsWith(e.message, NoOptimalPath)
    THEN ValidationError(<< [ field |-> LiquidityErrorField(buyAmount),
                              code |-> "ValueOutOfRange",
                              reason |-> InsufficientAssetLiquidity ] >>)
    ELSE IF startsWith(e.message, AssetUnavailable)
    THEN ValidationError(<< [ field |-> "token", code |-> "ValueOutOfRange",
                              reason |-> e.message ] >>)
    ELSE InternalServerError(e.message)

(***************************************************************************)
(* SwapService.  Hex strings are sequences of characters, "0x" first.      *)
(***************************************************************************)
\* Added to the gas estimate, in percent (GAS_LIMIT_BUFFER_PERCENTAGE = 0.2).
GAS_LIMIT_BUFFER_PERCENTAGE == 20
WRAP_QUOTE_GAS == 30000
UNWRAP_QUOTE_GAS == 60000
FEE_RECIPIENT_ADDRESS == "0xfeerecipient"
WETH_CONTRACT_ADDRESS == WETH_ADDRESS
\* The BigNumber constants ZERO and ONE.  A price is a fraction in lowest
\* terms, <<numerator, denominator>>.
ZERO == 0
ONE == <<1, 1>>

\* The calldata the SwapQuoteConsumer returns.
SwapCalldata == <<"0", "x", "5", "a">>
\* wethContract.deposit().getABIEncodedTransactionData()
DepositCalldata == <<"0", "x", "d", "0">>
\* wethContract.withdraw(amount).getABIEncodedTransactionData()
WithdrawCalldata(amount) == <<"0", "x", "2", "e", ToString(amount)>>

\* affiliateCallDataEncoder.encode([affiliate, timestamp]): "0x", the selector
\* of ZeroExAPIAffiliate(address,uint256), the two arguments.
EncodeAffiliate(affiliate, timestamp) ==
    <<"0", "x", "a", "f", affiliate, ToString(timestamp)>>

\* encodedAffiliateData.slice(2)
Slice2(hex) == SubSeq(hex, 3, Len(hex))

\* _attributeCallData(data, affiliateAddress), with timestamp the clock reading.
attributeCallDataKeepPrefix(data, affiliateAddress, timestamp) ==
    data \o EncodeAffiliate(
              IF affiliateAddress # Undefined THEN affiliateAddress ELSE FEE_RECIPIENT_ADDRESS,
              timestamp)
attributeCallData(data, affiliateAddress, timestamp) ==
    LET affiliateAddressOrDefault ==
            IF affiliateAddress # Undefined THEN affiliateAddress ELSE FEE_RECIPIENT_ADDRESS
        encodedAffiliateData == EncodeAffiliate(affiliateAddressOrDefault, timestamp)
    IN  data \o Slice2(encodedAffiliateData)

Max(a, b) == IF a >= b THEN a ELSE b
Min(a, b) == IF a <= b THEN a ELSE b

\* x.times(GAS_LIMIT_BUFFER_PERCENTAGE + 1).integerValue(): rounds half up.
AddGasBuffer(x) == (x * (100 + GAS_LIMIT_BUFFER_PERCENTAGE) + 50) \div 100

\* suggestedGasEstimate of calculateSwapQuoteAsync: gas is the worst-case gas of
\* the quote, gasEstimate the node's estimate (undefined when from is not given).
SuggestedGasEstimateNoMax(gas, gasEstimate) ==
    AddGasBuffer(IF gasEstimate # UndefinedNum THEN Val(gasEstimate) ELSE gas)
SuggestedGasEstimate(gas, gasEstimate) ==
    AddGasBuffer(IF gasEstimate # UndefinedNum THEN Max(Val(gasEstimate), gas) ELSE gas)

\* const txDataValue = extensionContractType === Forwarder
\*     ? BigNumber.min(value, await getBalanceInWeiAsync(from)) : value
\* balance is the node's answer, read only for the Forwarder.
TxDataValueIgnoringBalance(extensionContractType, value, balance) == value
TxDataValue(extensionContractType, value, balance) ==
    IF extensionContractType = "Forwarder" THEN Min(value, Val(balance)) ELSE value

\* A BigNumber that is no integer is a fraction in lowest terms,
\* <<numerator, denominator>>.
RECURSIVE GCD(_, _)
GCD(a, b) == IF b = 0 THEN a ELSE GCD(b, a % b)
Fraction(n, d) == <<n \div GCD(n, d), d \div GCD(n, d)>>

\* Web3Wrapper.toUnitAmount(amount, decimals): amount / 10^decimals
toUnitAmount(amount, decimals) == Fraction(amount, 10 ^ decimals)
\* a.dividedBy(b), for b # 0
dividedBy(a, b) == Fraction(a[1] * b[2], a[2] * b[1])
\* x.decimalPlaces(dp): x rounded half up to dp decimal places
decimalPlaces(x, dp) == Fraction((2 * x[1] * 10 ^ dp + x[2]) \div (2 * x[2]), 10 ^ dp)

\* price and guaranteedPrice of calculateSwapQuoteAsync, from the maker and
\* taker amounts of a quote info: buyAmount === undefined selects maker per
\* taker rounded to the sell token's decimals, else taker per maker rounded to
\* the buy token's decimals.
Price(buyAmount, quoteInfo, buyDecimals, sellDecimals) ==
    LET unitMakerAssetAmount == toUnitAmount(quoteInfo.makerAssetAmount, buyDecimals)
        unitTakerAssetAmount == toUnitAmount(quoteInfo.totalTakerAssetAmount, sellDecimals)
    IN  IF buyAmount = UndefinedNum
        THEN decimalPlaces(dividedBy(unitMakerAssetAmount, unitTakerAssetAmount), sellDecimals)
        ELSE decimalPlaces(dividedBy(unitTakerAssetAmount, unitMakerAssetAmount), buyDecimals)

\* The values of the enum ERC20BridgeSource, in the order of Object.values.
ERC20BridgeSource == <<"Native", "Uniswap", "Eth2Dai", "Kyber">>
PERCENTAGE_SIG_DIGITS == 4

\* An object is the sequence of its <<key, value>> entries, in insertion order.
ObjectKeys(obj) == {obj[i][1] : i \in DOMAIN obj}
ObjectGet(obj, key) == obj[CHOOSE i \in DOMAIN obj : obj[i][1] = key][2]
\* { ...a, ...b }: the keys of a keep their place and take the value of b when
\* b has them; the other keys of b follow.
ObjectSpread(a, b) ==
    [i \in DOMAIN a |->
        IF a[i][1] \in ObjectKeys(b) THEN <<a[i][1], ObjectGet(b, a[i][1])>> ELSE a[i]]
      \o SelectSeq(b, LAMBDA entry : entry[1] \notin ObjectKeys(a))

\* A proportion is a number of hundred-thousandths.  The decimal digits of n > 0.
RECURSIVE Digits(_)
Digits(n) == IF n < 10 THEN 1 ELSE 1 + Digits(n \div 10)
\* new BigNumber(percentage.toPrecision(sd)): rounded half up to sd significant digits
toPrecision(percentage, sd) ==
    IF percentage = 0 \/ Digits(percentage) <= sd THEN percentage
    ELSE LET unit == 10 ^ (Digits(percentage) - sd)
         IN  ((2 * percentage + unit) \div (2 * unit)) * unit

\* Object.assign({}, ...Object.values(ERC20BridgeSource).map(s => ({ [s]: ZERO })))
defaultSourceBreakdown ==
    [i \in DOMAIN ERC20BridgeSource |-> <<ERC20BridgeSource[i], ZERO>>]

\* The same with the operands of the spread exchanged: the defaults come last.
convertSourceBreakdownDefaultsLast(breakdown) ==
    LET entries == ObjectSpread(breakdown, defaultSourceBreakdown)
    IN  [i \in DOMAIN entries |->
            [ name |-> IF entries[i][1] = "Native" THEN "0x" ELSE entries[i][1],
              proportion |-> toPrecision(entries[i][2], PERCENTAGE_SIG_DIGITS) ]]

\* _convertSourceBreakdownToArray(sourceBreakdown)
convertSourceBreakdownToArray(breakdown) ==
    LET entries == ObjectSpread(defaultSourceBreakdown, breakdown)
    IN  [i \in DOMAIN entries |->
            [ name |-> IF entries[i][1] = "Native" THEN "0x" ELSE entries[i][1],
              proportion |-> toPrecision(entries[i][2], PERCENTAGE_SIG_DIGITS) ]]

\* _attributeSwapQuoteOrders: an order whose maker asset data decodes as bridge
\* asset data gets the fee recipient address, any other order is unchanged.
attributeSwapQuoteOrders(orders) ==
    [i \in DOMAIN orders |->
        IF orders[i].makerAssetData = "bridge"
        THEN [orders[i] EXCEPT !.feeRecipientAddress = FEE_RECIPIENT_ADDRESS]
        ELSE orders[i]]

\* _cleanSignedOrderFields: the fields of a signed order and no other.
cleanSignedOrderFields(orders) ==
    [i \in DOMAIN orders |->
        [ makerAddress |-> orders[i].makerAddress,
          feeRecipientAddress |-> orders[i].feeRecipientAddress,
          makerAssetData |-> orders[i].makerAssetData,
          signature |-> orders[i].signature ]]

\* The transaction _estimateGasOrThrowRevertErrorAsync is called with.
SimulatedTxData(cd, affiliated, from, value) ==
    [ to |-> cd.toAddress, data |-> affiliated, from |-> from, value |-> value ]

\* apiSwapQuote of calculateSwapQuoteAsync.
ApiSwapQuote(p, quote, cd, affiliated, gasEstimate, buyDecimals, sellDecimals) ==
    [ price |-> Price(p.buyAmount, quote.bestCaseQuoteInfo, buyDecimals, sellDecimals),
      guaranteedPrice |->
          Price(p.buyAmount, quote.worstCaseQuoteInfo, buyDecimals, sellDecimals),
      to |-> cd.toAddress,
      data |-> affiliated,
      value |-> cd.ethAmount,
      gas |-> SuggestedGasEstimate(quote.worstCaseGas, gasEstimate),
      from |-> p.from,
      gasPrice |-> quote.gasPrice,
      protocolFee |-> quote.bestCaseQuoteInfo.protocolFeeInWeiAmount,
      buyTokenAddress |-> p.buyTokenAddress,
      sellTokenAddress |-> p.sellTokenAddress,
      buyAmount |-> quote.bestCaseQuoteInfo.makerAssetAmount,
      sellAmount |-> quote.bestCaseQuoteInfo.totalTakerAssetAmount,
      sources |-> convertSourceBreakdownToArray(quote.sourceBreakdown),
      orders |-> cleanSignedOrderFields(attributeSwapQuoteOrders(quote.orders)) ]

\* const value = isUnwrap ? ZERO : amount
WethValueAlwaysAmount(isUnwrapCall, amount) == amount
WethValue(isUnwrapCall, amount) == IF isUnwrapCall THEN ZERO ELSE amount

\* apiSwapQuote of _getSwapQuoteForWethAsync.
WethSwapQuote(p, isUnwrapCall, amount, affiliated, gasPrice) ==
    [ price |-> ONE,
      guaranteedPrice |-> ONE,
      to |-> WETH_CONTRACT_ADDRESS,
      data |-> affiliated,
      value |-> WethValue(isUnwrapCall, amount),
      gas |-> IF isUnwrapCall THEN UNWRAP_QUOTE_GAS ELSE WRAP_QUOTE_GAS,
      from |-> p.from,
      gasPrice |-> gasPrice,
      protocolFee |-> ZERO,
      buyTokenAddress |-> p.buyTokenAddress,
      sellTokenAddress |-> p.sellTokenAddress,
      buyAmount |-> amount,
      sellAmount |-> amount,
      sources |-> <<>>,
      orders |-> <<>> ]

\* const amount = buyAmount || sellAmount (a BigNumber is always truthy)
WethAmount(p) == IF p.buyAmount # UndefinedNum THEN p.buyAmount ELSE p.sellAmount

Pending == [state |-> "pending"]
Fulfilled(v) == [state |-> "fulfilled", value |-> v]
Rejected(e) == [state |-> "rejected", value |-> e]
NoPromise == [state |-> "none"]
\* A synchronous call: not made yet, or returned with a value.
NotReturned == [returned |-> FALSE]
Returned(v) == [returned |-> TRUE, value |-> v]

\* The maker and taker amounts and the protocol fee of a quote, best case or
\* worst case.
QuoteInfos ==
    [ makerAssetAmount : QuoteAmounts,
      totalTakerAssetAmount : QuoteAmounts,
      protocolFeeInWeiAmount : {1} ]

\* The orders of a quote: a bridge order and a native order, each with a field
\* that is no field of a signed order.
QuoteOrders ==
    << [ makerAddress |-> "0xbridge", feeRecipientAddress |-> "0xnobody",
         makerAssetData |-> "bridge", signature |-> "0xsig1", fillableTakerAssetAmount |-> 1 ],
       [ makerAddress |-> "0xmaker", feeRecipientAddress |-> "0xnobody",
         makerAssetData |-> "erc20", signature |-> "0xsig2", fillableTakerAssetAmount |-> 1 ] >>

\* The quotes of the SwapQuoter with the given best-case and worst-case quote
\* infos: worst-case gas, gas price, source breakdown and orders.
SwapQuotesWith(bestCaseQuoteInfos, worstCaseQuoteInfos) ==
    [ worstCaseGas : GasValues,
      gasPrice : {2},
      bestCaseQuoteInfo : bestCaseQuoteInfos,
      worstCaseQuoteInfo : worstCaseQuoteInfos,
      sourceBreakdown : { << <<"Uniswap", 33333>>, <<"Native", 66667>> >> },
      orders : {QuoteOrders} ]

\* What the SwapQuoter returns to a request of the HTTP API: one market, two
\* maker amounts for one taker amount in the best case, one for one in the worst.
SwapQuotes ==
    SwapQuotesWith(
        {[makerAssetAmount |-> 2, totalTakerAssetAmount |-> 1, protocolFeeInWeiAmount |-> 1]},
        {[makerAssetAmount |-> 1, totalTakerAssetAmount |-> 1, protocolFeeInWeiAmount |-> 1]})
\* What the SwapQuoter may return to a direct call of the service.
AnySwapQuotes == SwapQuotesWith(QuoteInfos, QuoteInfos)

\* useExtensionContract of getCalldataOrThrowAsync
ExtensionContractType(p) == IF p.isETHSell THEN "Forwarder" ELSE "None"

\* What the SwapQuoteConsumer returns for the extension contract asked for.
CalldataInfos(extensionContractType) ==
    [ calldataHexString : {SwapCalldata},
      ethAmount : Amounts,
      toAddress : {IF extensionContractType = "Forwarder" THEN "0xforwarder" ELSE "0xexchange"} ]

\* An eth_call outcome that _throwIfCallIsRevertErrorAsync turns into a throw:
\* callAsync threw, or the returned data decodes as a revert error.
CallRevertsOnThrowOnly(outcome) == outcome = "threw"
CallReverts(outcome) == outcome \in {"threw", "revertData"}
CallOutcomes == {"threw", "revertData", "data"}

\* The service call settles with result.
ServiceSettles(result) ==
    /\ serviceResult' = result
    /\ sPc' = "settled"

\* _estimateGasOrThrowRevertErrorAsync up to its first await: estimateGasAsync
\* and callAsync are both issued with the same txData.
EstimateGasOrThrowRevertErrorStart(txData) ==
    /\ nodeRequests' = nodeRequests \o
          << [method |-> "eth_estimateGas", txData |-> txData],
             [method |-> "eth_call", txData |-> txData] >>
    /\ estimateGasPromise' = Pending
    /\ callPromise' = Pending
    /\ txDataValue' = Num(txData.value)
    /\ sPc' = "simulate"

\* The quoter call calculateSwapQuoteAsync makes for params p, None when it
\* throws instead: if (sellAmount !== undefined) ... else if (buyAmount !== undefined) ...
QuoterCallBuyFirst(p) ==
    IF p.buyAmount # UndefinedNum
    THEN [method |-> "getMarketBuySwapQuoteAsync", amount |-> p.buyAmount]
    ELSE IF p.sellAmount # UndefinedNum
    THEN [method |-> "getMarketSellSwapQuoteAsync", amount |-> p.sellAmount]
    ELSE None
QuoterCall(p) ==
    IF p.sellAmount # UndefinedNum
    THEN [method |-> "getMarketSellSwapQuoteAsync", amount |-> p.sellAmount]
    ELSE IF p.buyAmount # UndefinedNum
    THEN [method |-> "getMarketBuySwapQuoteAsync", amount |-> p.buyAmount]
    ELSE None

\* calculateSwapQuoteAsync up to its first await.
CalculateSwapQuoteStart(p) ==
    /\ IF QuoterCall(p) # None
       THEN /\ quoterCalls' = Append(quoterCalls, QuoterCall(p))
            /\ sPc' = "quoter"
            /\ serviceResult' = Pending
       ELSE /\ quoterCalls' = quoterCalls
            /\ ServiceSettles(Rejected(Error(AmountRequiredMessage)))
    /\ UNCHANGED <<consumerCalls, nodeRequests, gasPriceCalls, swapQuote, calldata,
                   affiliatedData, balanceInWei, buyTokenDecimals, sellTokenDecimals,
                   txDataValue,
                   estimateGasPromise, callPromise>>

\* _getSwapQuoteForWethAsync up to its first await, or to its end when the
\* request carries a gas price.
GetSwapQuoteForWethStart(p, isUnwrapCall, timestamp) ==
    /\ IF WethAmount(p) = UndefinedNum
       THEN /\ ServiceSettles(Rejected(Error(AmountRequiredMessage)))
            /\ UNCHANGED <<affiliatedData, gasPriceCalls>>
       ELSE LET amount == Val(WethAmount(p))
                data == IF isUnwrapCall THEN WithdrawCalldata(amount) ELSE DepositCalldata
                affiliated == attributeCallData(data, p.affiliateAddress, timestamp)
            IN  /\ affiliatedData' = affiliated
                /\ IF p.gasPrice # UndefinedNum
                   THEN /\ ServiceSettles(Fulfilled(
                              WethSwapQuote(p, isUnwrapCall, amount, affiliated, Val(p.gasPrice))))
                        /\ UNCHANGED gasPriceCalls
                   ELSE /\ gasPriceCalls' = gasPriceCalls + 1
                        /\ sPc' = "gasPrice"
                        /\ serviceResult' = Pending
    /\ UNCHANGED <<quoterCalls, consumerCalls, nodeRequests, swapQuote, calldata,
                   balanceInWei, buyTokenDecimals, sellTokenDecimals, txDataValue,
                   estimateGasPromise,
                   callPromise>>

\* getSwapQuoteAsync from the arrival of the request to its first await: parsing,
\* validation, and the call of the selected SwapService method.  One request is
\* followed, sent to the swap router of a server whose start-up has finished.
GetSwapQuoteBegin ==
    /\ appPc = "returned"
    /\ serverListening /\ ~processExited /\ "swap" \in routes
    /\ hPc = "idle"
    /\ \E r \in Requests, timestamp \in ClockValues :
         /\ req' = r
         /\ LET failure == ValidationFailure(r) IN
            IF failure # None
            THEN /\ thrown' = <<failure>>
                 /\ hPc' = "done"
                 /\ UNCHANGED <<responses, serviceCalls, serviceVars>>
            ELSE LET p == CalculateSwapQuoteParams(r)
                     method == SelectedMethod(r)
                 IN  /\ serviceCalls' = <<method>>
                     /\ params' = p
                     /\ hPc' = "awaiting"
                     /\ UNCHANGED <<responses, thrown>>
                     /\ IF method = "calculateSwapQuoteAsync"
                        THEN CalculateSwapQuoteStart(p)
                        ELSE GetSwapQuoteForWethStart(
                                 p, method = "getSwapQuoteForUnwrapAsync", timestamp)
    /\ UNCHANGED <<appVars, processVars, functionVars>>

\* The quoter settles, with an error or with one of quotes; on a quote,
\* calculateSwapQuoteAsync goes on to ask the consumer for the calldata.
QuoterSettlesWith(quotes) ==
    /\ sPc = "quoter"
    /\ \/ \E e \in UpstreamErrors :
            /\ ServiceSettles(Rejected(e))
            /\ UNCHANGED <<swapQuote, consumerCalls>>
       \/ \E q \in quotes :
            /\ swapQuote' = q
            /\ consumerCalls' = Append(consumerCalls,
                   [useExtensionContract |-> ExtensionContractType(params)])
            /\ sPc' = "consumer"
            /\ UNCHANGED serviceResult
    /\ UNCHANGED <<params, quoterCalls, nodeRequests, gasPriceCalls, calldata,
                   affiliatedData, balanceInWei, buyTokenDecimals, sellTokenDecimals,
                   txDataValue,
                   estimateGasPromise, callPromise>>
    /\ UNCHANGED <<appVars, handlerVars, processVars, functionVars>>

\* The quoter settles for a request of the HTTP API.
QuoterSettles == QuoterSettlesWith(SwapQuotes)
\* The quoter settles for a direct call of the service.
QuoterSettlesAny == QuoterSettlesWith(AnySwapQuotes)

\* The call the decimals of an unmapped token are fetched with.
DecimalsCall(tokenAddress) ==
    [method |-> "eth_call", txData |-> [data |-> <<"0", "x", "d", "e", "c">>,
                                        to |-> tokenAddress]]

\* gasEstimate of calculateSwapQuoteAsync once the simulation is over.
GasEstimate ==
    IF params.from # Undefined THEN Num(estimateGasPromise.value) ELSE UndefinedNum

\* The end of calculateSwapQuoteAsync, from the first call of
\* _fetchTokenDecimalsIfRequiredAsync: the decimals of a token of the token
\* list are known, those of another token are asked of the node, the buy token
\* first; with both known the quote is returned.
FetchTokenDecimalsOrReturn(p, quote, cd, affiliated, gasEstimate) ==
    LET buyDecimals == findTokenDecimalsIfExists(p.buyTokenAddress)
        sellDecimals == findTokenDecimalsIfExists(p.sellTokenAddress)
    IN  IF buyDecimals = UndefinedNum
        THEN /\ nodeRequests' = Append(nodeRequests, DecimalsCall(p.buyTokenAddress))
             /\ sPc' = "buyDecimals"
             /\ UNCHANGED <<buyTokenDecimals, sellTokenDecimals, serviceResult>>
        ELSE IF sellDecimals = UndefinedNum
        THEN /\ buyTokenDecimals' = buyDecimals
             /\ nodeRequests' = Append(nodeRequests, DecimalsCall(p.sellTokenAddress))
             /\ sPc' = "sellDecimals"
             /\ UNCHANGED <<sellTokenDecimals, serviceResult>>
        ELSE /\ buyTokenDecimals' = buyDecimals
             /\ sellTokenDecimals' = sellDecimals
             /\ ServiceSettles(Fulfilled(
                    ApiSwapQuote(p, quote, cd, affiliated, gasEstimate,
                                 Val(buyDecimals), Val(sellDecimals))))
             /\ UNCHANGED nodeRequests

\* The consumer settles; on calldata, calculateSwapQuoteAsync affiliates it and,
\* with a taker address, starts the balance query or the simulation; without
\* one it finishes the quote.
ConsumerSettles ==
    /\ sPc = "consumer"
    /\ \/ \E e \in UpstreamErrors :
            /\ ServiceSettles(Rejected(e))
            /\ UNCHANGED <<calldata, affiliatedData, nodeRequests, txDataValue,
                           estimateGasPromise, callPromise, buyTokenDecimals,
                           sellTokenDecimals>>
       \/ \E cd \in CalldataInfos(ExtensionContractType(params)), timestamp \in ClockValues :
            LET affiliated == attributeCallData(cd.calldataHexString,
                                                params.affiliateAddress, timestamp)
            IN  /\ calldata' = cd
                /\ affiliatedData' = affiliated
                /\ IF params.from # Undefined
                   THEN IF ExtensionContractType(params) = "Forwarder"
                        THEN /\ nodeRequests' = Append(nodeRequests,
                                    [method |-> "eth_getBalance", address |-> params.from])
                             /\ sPc' = "balance"
                             /\ UNCHANGED <<txDataValue, estimateGasPromise, callPromise,
                                            serviceResult, buyTokenDecimals,
                                            sellTokenDecimals>>
                        ELSE /\ EstimateGasOrThrowRevertErrorStart(
                                    SimulatedTxData(cd, affiliated, params.from,
                                        TxDataValue(ExtensionContractType(params),
                                                    cd.ethAmount, UndefinedNum)))
                             /\ UNCHANGED <<serviceResult, buyTokenDecimals,
                                            sellTokenDecimals>>
                   ELSE /\ FetchTokenDecimalsOrReturn(params, swapQuote, cd, affiliated,
                                                      UndefinedNum)
                        /\ UNCHANGED <<txDataValue, estimateGasPromise, callPromise>>
    /\ UNCHANGED <<params, quoterCalls, consumerCalls, gasPriceCalls, swapQuote,
                   balanceInWei>>
    /\ UNCHANGED <<appVars, handlerVars, processVars, functionVars>>

\* getBalanceInWeiAsync settles; the simulated value is min(value, balance).
BalanceSettles ==
    /\ sPc = "balance"
    /\ \/ \E e \in UpstreamErrors :
            /\ ServiceSettles(Rejected(e))
            /\ UNCHANGED <<nodeRequests, balanceInWei, txDataValue, estimateGasPromise,
                           callPromise>>
       \/ \E balance \in Amounts :
            /\ balanceInWei' = Num(balance)
            /\ EstimateGasOrThrowRevertErrorStart(
                   SimulatedTxData(calldata, affiliatedData, params.from,
                       TxDataValue(ExtensionContractType(params),
                                   calldata.ethAmount, Num(balance))))
            /\ UNCHANGED serviceResult
    /\ UNCHANGED <<params, quoterCalls, consumerCalls, gasPriceCalls, swapQuote,
                   calldata, affiliatedData, buyTokenDecimals, sellTokenDecimals>>
    /\ UNCHANGED <<appVars, handlerVars, processVars, functionVars>>

\* .catch(_e => 0): the promise _estimateGasOrThrowRevertErrorAsync keeps.  A
\* rejection of estimateGasAsync becomes the value 0; failed records that it
\* was one.
CatchEstimateGasMissing(outcome) ==
    [state |-> outcome.state, value |-> outcome.value, failed |-> outcome.state = "rejected"]
CatchEstimateGas(outcome) ==
    IF outcome.state = "rejected"
    THEN [state |-> "fulfilled", value |-> 0, failed |-> TRUE]
    ELSE [state |-> "fulfilled", value |-> outcome.value, failed |-> FALSE]

\* The promise kept for the gas estimation settles when estimateGasAsync
\* settles with outcome; settledAt records where the service call was then.  A
\* promise that rejects while nothing awaits it is an unhandled rejection.
EstimateGasSettlesWith(outcome) ==
    LET kept == CatchEstimateGas(outcome) IN
    /\ estimateGasPromise' = kept @@ [settledAt |-> sPc]
    /\ unhandledRejections' =
          IF kept.state = "rejected" /\ sPc # "awaitGas"
          THEN Append(unhandledRejections, "estimateGasPromise")
          ELSE unhandledRejections

\* estimateGasAsync(txData) settles, with an estimate or with a rejection,
\* whatever the service call is doing then.
EstimateGasSettles ==
    /\ estimateGasPromise.state = "pending"
    /\ \/ \E estimate \in GasValues : EstimateGasSettlesWith(Fulfilled(estimate))
       \/ EstimateGasSettlesWith(Rejected(<<"estimateGas", "failed">>))
    /\ UNCHANGED <<sPc, params, quoterCalls, consumerCalls, nodeRequests, gasPriceCalls,
                   swapQuote, calldata, affiliatedData, balanceInWei, buyTokenDecimals,
                   sellTokenDecimals, txDataValue, callPromise, serviceResult>>
    /\ UNCHANGED <<appVars, handlerVars, functionVars>>

\* callAsync(txData) settles and _throwIfCallIsRevertErrorAsync goes on: it
\* throws the revert error, or returns to the await of the gas estimate.
CallSettles ==
    /\ sPc = "simulate"
    /\ callPromise.state = "pending"
    /\ \E outcome \in CallOutcomes :
         /\ callPromise' = [state |-> "settled", outcome |-> outcome]
         /\ IF CallReverts(outcome)
            THEN ServiceSettles(Rejected(RevertError(outcome)))
            ELSE /\ sPc' = "awaitGas"
                 /\ UNCHANGED serviceResult
    /\ UNCHANGED <<params, quoterCalls, consumerCalls, nodeRequests, gasPriceCalls,
                   swapQuote, calldata, affiliatedData, balanceInWei, buyTokenDecimals,
                   sellTokenDecimals, txDataValue, estimateGasPromise>>
    /\ UNCHANGED <<appVars, handlerVars, processVars, functionVars>>

\* const gas = await estimateGasPromise, and the rest of calculateSwapQuoteAsync.
AwaitEstimateGas ==
    /\ sPc = "awaitGas"
    /\ estimateGasPromise.state \in {"fulfilled", "rejected"}
    /\ IF estimateGasPromise.state = "rejected"
       THEN /\ ServiceSettles(Rejected(Error(estimateGasPromise.value)))
            /\ UNCHANGED <<nodeRequests, buyTokenDecimals, sellTokenDecimals>>
       ELSE FetchTokenDecimalsOrReturn(params, swapQuote, calldata, affiliatedData,
                                       GasEstimate)
    /\ UNCHANGED <<params, quoterCalls, consumerCalls, gasPriceCalls,
                   swapQuote, calldata, affiliatedData, balanceInWei, txDataValue,
                   estimateGasPromise, callPromise>>
    /\ UNCHANGED <<appVars, handlerVars, processVars, functionVars>>

\* _fetchTokenDecimalsIfRequiredAsync once the node answered with decimals,
\* and the rest of calculateSwapQuoteAsync.
TokenDecimalsFetched(decimals) ==
    LET sellDecimals == findTokenDecimalsIfExists(params.sellTokenAddress) IN
    IF sPc = "buyDecimals"
    THEN /\ buyTokenDecimals' = Num(decimals)
         /\ IF sellDecimals = UndefinedNum
            THEN /\ nodeRequests' = Append(nodeRequests, DecimalsCall(params.sellTokenAddress))
                 /\ sPc' = "sellDecimals"
                 /\ UNCHANGED <<sellTokenDecimals, serviceResult>>
            ELSE /\ sellTokenDecimals' = sellDecimals
                 /\ ServiceSettles(Fulfilled(
                        ApiSwapQuote(params, swapQuote, calldata, affiliatedData, GasEstimate,
                                     decimals, Val(sellDecimals))))
                 /\ UNCHANGED nodeRequests
    ELSE /\ sellTokenDecimals' = Num(decimals)
         /\ ServiceSettles(Fulfilled(
                ApiSwapQuote(params, swapQuote, calldata, affiliatedData, GasEstimate,
                             Val(buyTokenDecimals), decimals)))
         /\ UNCHANGED <<nodeRequests, buyTokenDecimals>>

\* The node answers the decimals call of _fetchTokenDecimalsIfRequiredAsync: a
\* number of decimals, or a failure (of the call or of the decoding), which is
\* caught and gives DEFAULT_TOKEN_DECIMALS.
TokenDecimalsSettles ==
    /\ sPc \in {"buyDecimals", "sellDecimals"}
    /\ \/ \E decimals \in FetchedDecimals : TokenDecimalsFetched(decimals)
       \/ TokenDecimalsFetched(DEFAULT_TOKEN_DECIMALS)
    /\ UNCHANGED <<params, quoterCalls, consumerCalls, gasPriceCalls, swapQuote,
                   calldata, affiliatedData, balanceInWei, txDataValue,
                   estimateGasPromise, callPromise>>
    /\ UNCHANGED <<appVars, handlerVars, processVars, functionVars>>

\* getGasPriceEstimationOrThrowAsync settles, and the rest of _getSwapQuoteForWethAsync.
GasPriceSettles ==
    /\ sPc = "gasPrice"
    /\ \/ \E e \in UpstreamErrors : ServiceSettles(Rejected(e))
       \/ \E gasPrice \in {2} :
            ServiceSettles(Fulfilled(
                WethSwapQuote(params, serviceCalls[1] = "getSwapQuoteForUnwrapAsync",
                              Val(WethAmount(params)), affiliatedData, gasPrice)))
    /\ UNCHANGED <<params, quoterCalls, consumerCalls, nodeRequests, gasPriceCalls,
                   swapQuote, calldata, affiliatedData, balanceInWei, buyTokenDecimals,
                   sellTokenDecimals, txDataValue, estimateGasPromise,
                   callPromise>>
    /\ UNCHANGED <<appVars, handlerVars, processVars, functionVars>>

\* What getSwapQuoteAsync does with the settled service call: a 200 response
\* with the quote, or the error of the catch block.
HandlerOutcomeAlsoResponds(result, buyAmount) ==
    IF result.state = "fulfilled"
    THEN [responses |-> << [status |-> 200, body |-> result.value] >>, thrown |-> <<>>]
    ELSE [responses |-> << [status |-> 500, body |-> result.value] >>,
          thrown |-> << Catch(result.value, buyAmount) >>]
HandlerOutcome(result, buyAmount) ==
    IF result.state = "fulfilled"
    THEN [responses |-> << [status |-> 200, body |-> result.value] >>, thrown |-> <<>>]
    ELSE [responses |-> <<>>, thrown |-> << Catch(result.value, buyAmount) >>]

\* getSwapQuoteAsync after its await.
GetSwapQuoteSettles ==
    /\ hPc = "awaiting"
    /\ serviceResult.state \in {"fulfilled", "rejected"}
    /\ LET outcome == HandlerOutcome(serviceResult, req.buyAmount) IN
         /\ responses' = outcome.responses
         /\ thrown' = outcome.thrown
    /\ hPc' = "done"
    /\ UNCHANGED <<req, serviceCalls>>
    /\ UNCHANGED <<appVars, serviceVars, processVars, functionVars>>

RequestInit ==
    /\ MESH_WEBSOCKET_URI \in MeshUris
    /\ appPc = "start"
    /\ dependencies = None
    /\ routes = {}
    /\ serverListening = FALSE
    /\ websocketService = FALSE
    /\ orderWatcher = "not_started"
    /\ processExited = FALSE
    /\ appReturned = FALSE
    /\ logs = <<>>
    /\ hPc = "idle"
    /\ req = None
    /\ responses = <<>>
    /\ thrown = <<>>
    /\ serviceCalls = <<>>
    /\ sPc = "idle"
    /\ params = None
    /\ quoterCalls = <<>>
    /\ consumerCalls = <<>>
    /\ nodeRequests = <<>>
    /\ gasPriceCalls = 0
    /\ swapQuote = None
    /\ calldata = None
    /\ affiliatedData = <<>>
    /\ balanceInWei = UndefinedNum
    /\ buyTokenDecimals = UndefinedNum
    /\ sellTokenDecimals = UndefinedNum
    /\ txDataValue = UndefinedNum
    /\ estimateGasPromise = NoPromise
    /\ callPromise = NoPromise
    /\ serviceResult = NoPromise
    /\ unhandledRejections = <<>>

\* getTokenPricesAsync before it is called.
PricesIdle ==
    /\ pricesPc = "idle"
    /\ queryAssetData = <<>>
    /\ batchCalls = <<>>
    /\ allResults = <<>>
    /\ prices = NoPromise

\* No function is called on its own.
Init ==
    /\ RequestInit
    /\ sourceBreakdown = <<>>
    /\ sources = NotReturned
    /\ tokenMetadatas = <<>>
    /\ sellToken = None
    /\ PricesIdle

Next ==
    \/ GetDefaultAppDependencies
    \/ RunHttpService
    \/ RunOrderWatcherService
    \/ GetSwapQuoteBegin
    \/ QuoterSettles
    \/ ConsumerSettles
    \/ BalanceSettles
    \/ EstimateGasSettles
    \/ CallSettles
    \/ AwaitEstimateGas
    \/ GasPriceSettles
    \/ GetSwapQuoteSettles

Spec == Init /\ [][Next]_vars

(***************************************************************************)
(* The swap service called directly, as by a caller that holds a           *)
(* SwapService: calculateSwapQuoteAsync with any params and any quote.     *)
(***************************************************************************)
\* The token pairs of a direct call: tokens of the token list with different
\* decimals, and a token that is not in the list on either side.
ServiceTokenPairs ==
    { [buyTokenAddress |-> USDC_ADDRESS, sellTokenAddress |-> WETH_ADDRESS],
      [buyTokenAddress |-> WETH_ADDRESS, sellTokenAddress |-> USDC_ADDRESS],
      [buyTokenAddress |-> UNMAPPED_ADDRESS, sellTokenAddress |-> WETH_ADDRESS],
      [buyTokenAddress |-> USDC_ADDRESS, sellTokenAddress |-> UNMAPPED_ADDRESS] }

\* The CalculateSwapQuoteParams of a direct call.
ServiceParams ==
    { [ buyTokenAddress |-> pair.buyTokenAddress,
        sellTokenAddress |-> pair.sellTokenAddress,
        buyAmount |-> buyAmount,
        sellAmount |-> sellAmount,
        from |-> from,
        isETHSell |-> isETHSell,
        gasPrice |-> UndefinedNum,
        affiliateAddress |-> Undefined ] :
        pair \in ServiceTokenPairs, buyAmount \in {UndefinedNum, Num(MaxAmount)},
        sellAmount \in {UndefinedNum, Num(MaxAmount)}, from \in {Undefined, "0xtaker"},
        isETHSell \in BOOLEAN }

\* calculateSwapQuoteAsync(params), called directly, up to its first await.
CalculateSwapQuoteCall ==
    /\ sPc = "idle"
    /\ serviceCalls = <<>>
    /\ \E p \in ServiceParams :
         /\ params' = p
         /\ serviceCalls' = <<"calculateSwapQuoteAsync">>
         /\ CalculateSwapQuoteStart(p)
    /\ UNCHANGED <<hPc, req, responses, thrown>>
    /\ UNCHANGED <<appVars, processVars, functionVars>>

ServiceNext ==
    \/ CalculateSwapQuoteCall
    \/ QuoterSettlesAny
    \/ ConsumerSettles
    \/ BalanceSettles
    \/ EstimateGasSettles
    \/ CallSettles
    \/ AwaitEstimateGas
    \/ TokenDecimalsSettles

\* The service of an application that was never started.
ServiceInit == Init /\ MESH_WEBSOCKET_URI = Undefined

ServiceSpec == ServiceInit /\ [][ServiceNext]_vars

(***************************************************************************)
(* _convertSourceBreakdownToArray on its own: the breakdown of the quoter  *)
(* is any object of at most MaxBreakdownEntries sources.                   *)
(***************************************************************************)
\* The keys a breakdown may hold: the ERC20BridgeSource values and one more.
BreakdownKeys == {ERC20BridgeSource[i] : i \in DOMAIN ERC20BridgeSource} \cup {"MultiBridge"}
\* Proportions of a breakdown, in hundred-thousandths.
Proportions == {0, 12345, 33333, 66667, 100000}
SourceBreakdowns ==
    { b \in UNION { [1 .. n -> BreakdownKeys \X Proportions] : n \in 0 .. MaxBreakdownEntries } :
        \A i, j \in DOMAIN b : b[i][1] = b[j][1] => i = j }

ConvertSourceBreakdown ==
    /\ sources = NotReturned
    /\ sources' = Returned(convertSourceBreakdownToArray(sourceBreakdown))
    /\ UNCHANGED <<appVars, handlerVars, serviceVars, processVars, sourceBreakdown,
                   pricesVars>>

SourcesNext == ConvertSourceBreakdown

SourcesInit ==
    /\ RequestInit
    /\ MESH_WEBSOCKET_URI = Undefined
    /\ sourceBreakdown \in SourceBreakdowns
    /\ sources = NotReturned
    /\ tokenMetadatas = <<>>
    /\ sellToken = None
    /\ PricesIdle

SourcesSpec == SourcesInit /\ [][SourcesNext]_vars

(***************************************************************************)
(* getTokenPricesAsync on its own, as the handler of GET /swap/prices      *)
(* calls it: the sell token is a token of the list and the unit amount is  *)
(* 1.  The list holds 1 .. MaxTokens tokens.                               *)
(***************************************************************************)
AllTokenSymbols ==
    << "WETH", "DAI", "USDC", "ZRX", "MKR", "REP", "BAT", "KNC", "LINK", "SNX",
       "OMG", "ZIL", "MANA", "ENJ", "GNT", "SNT", "REN", "LEND", "WBTC", "TUSD",
       "BNT", "cDAI", "USDT", "SAI" >>
\* The metadata of the i-th token.  Decimals are scaled as in
\* findTokenDecimalsIfExists: 2 stands for 18 and 1 for 6.
TokenMetadata(i) ==
    [ symbol |-> AllTokenSymbols[i],
      tokenAddress |-> <<"0x", AllTokenSymbols[i]>>,
      decimals |-> IF AllTokenSymbols[i] \in {"USDC", "USDT"} THEN 1 ELSE 2 ]
TokenLists == { [i \in 1 .. n |-> TokenMetadata(i)] : n \in 1 .. MaxTokens }

\* assetDataUtils.encodeERC20AssetData(tokenAddress): the ERC20 proxy id
\* followed by the address
encodeERC20AssetData(tokenAddress) == <<"0xf47261b0">> \o tokenAddress
\* Web3Wrapper.toBaseUnitAmount(amount, decimals)
toBaseUnitAmount(amount, decimals) == amount * 10 ^ decimals
\* const unitAmount = new BigNumber(1) of the handler
unitAmount == 1
chunkSize == 20

\* _.chunk(array, size)
chunk(array, size) ==
    [ c \in 1 .. ((Len(array) + size - 1) \div size) |->
        SubSeq(array, (c - 1) * size + 1,
               IF c * size < Len(array) THEN c * size ELSE Len(array)) ]
\* _.flatten(arrays)
RECURSIVE flatten(_)
flatten(arrays) ==
    IF arrays = <<>> THEN <<>> ELSE Head(arrays) \o flatten(Tail(arrays))

\* The synchronous part of getTokenPricesAsync: the query list, the chunks and
\* one batch call of the quoter per chunk; then the call awaits Promise.all.
GetTokenPricesCall ==
    /\ pricesPc = "idle"
    /\ LET takerAssetData == encodeERC20AssetData(sellToken.tokenAddress)
           query == SelectSeq(tokenMetadatas, LAMBDA m : m.symbol # sellToken.symbol)
           assetDataChunks == chunk(query, chunkSize)
       IN  /\ queryAssetData' = query
           /\ batchCalls' =
                [ c \in DOMAIN assetDataChunks |->
                    [ makerAssetDatas |->
                        [ i \in DOMAIN assetDataChunks[c] |->
                            encodeERC20AssetData(assetDataChunks[c][i].tokenAddress) ],
                      takerAssetData |-> takerAssetData,
                      amounts |->
                        [ i \in DOMAIN assetDataChunks[c] |->
                            toBaseUnitAmount(unitAmount, assetDataChunks[c][i].decimals) ] ] ]
    /\ pricesPc' = "awaiting"
    /\ UNCHANGED <<appVars, handlerVars, serviceVars, processVars, sourcesVars,
                   tokenMetadatas, sellToken, allResults, prices>>

\* What a batch call of the quoter resolves with.  "aligned": one entry per
\* maker asset, undefined where there is no liquidity.  "compact": the quotes
\* found, without the undefined entries.  "single": one quote whatever was
\* asked, as SwapQuoterStub of test/app_test.ts.  "rejected": the call throws.
BatchAnswerKinds == {"aligned", "compact", "single", "rejected"}
\* The market buy quote of the i-th maker asset of a batch call.
QuoteFor(call, i, takerAmounts) ==
    [ makerAssetData |-> call.makerAssetDatas[i],
      takerAssetData |-> call.takerAssetData,
      bestCaseQuoteInfo |->
        [ makerAssetAmount |-> call.amounts[i],
          totalTakerAssetAmount |-> takerAmounts[1 + (i % 2)] ] ]
BatchAnswer(kind, call, illiquid, takerAmounts) ==
    LET aligned == [ i \in DOMAIN call.makerAssetDatas |->
                       IF call.makerAssetDatas[i] \in illiquid THEN None
                       ELSE QuoteFor(call, i, takerAmounts) ]
    IN  IF kind = "aligned" THEN aligned
        ELSE IF kind = "compact" THEN SelectSeq(aligned, LAMBDA quote : quote # None)
        ELSE <<QuoteFor(call, 1, takerAmounts)>>

\* The price of one unit of the buy token, from a quote.
TokenPrice(quote, buyDecimals, sellDecimals) ==
    LET unitMakerAssetAmount ==
            toUnitAmount(quote.bestCaseQuoteInfo.makerAssetAmount, buyDecimals)
        unitTakerAssetAmount ==
            toUnitAmount(quote.bestCaseQuoteInfo.totalTakerAssetAmount, sellDecimals)
    IN  decimalPlaces(dividedBy(unitTakerAssetAmount, unitMakerAssetAmount), buyDecimals)
\* allResults.map((quote, i) => ...).filter(p => p)
TokenPrices(results, query, sell) ==
    LET mapped == [ i \in DOMAIN results |->
                      IF results[i] = None THEN None
                      ELSE [ symbol |-> query[i].symbol,
                             price |-> TokenPrice(results[i], query[i].decimals,
                                                  sell.decimals) ] ]
    IN  SelectSeq(mapped, LAMBDA p : p # None)

\* Promise.all settles: it rejects when a batch call rejected, else it resolves
\* with the answers in the order of the chunks, whatever the order in which
\* the calls settled; the rest of the method runs.
BatchQuotesSettle ==
    /\ pricesPc = "awaiting"
    /\ \E kinds \in [DOMAIN batchCalls -> BatchAnswerKinds],
          illiquid \in {{}} \cup {{queryAssetData[i].tokenAddress} : i \in DOMAIN queryAssetData},
          takerAmounts \in QuoteAmounts \X QuoteAmounts :
         IF \E c \in DOMAIN batchCalls : kinds[c] = "rejected"
         THEN /\ prices' = Rejected(Error(<<"quoter", "failed">>))
              /\ UNCHANGED allResults
         ELSE LET answers == [ c \in DOMAIN batchCalls |->
                                 BatchAnswer(kinds[c], batchCalls[c],
                                             {encodeERC20AssetData(a) : a \in illiquid},
                                             takerAmounts) ]
              IN  /\ allResults' = flatten(answers)
                  /\ prices' = Fulfilled(TokenPrices(flatten(answers), queryAssetData,
                                                     sellToken))
    /\ pricesPc' = "done"
    /\ UNCHANGED <<appVars, handlerVars, serviceVars, processVars, sourcesVars,
                   tokenMetadatas, sellToken, queryAssetData, batchCalls>>

PricesNext ==
    \/ GetTokenPricesCall
    \/ BatchQuotesSettle

PricesInit ==
    /\ RequestInit
    /\ MESH_WEBSOCKET_URI = Undefined
    /\ sourceBreakdown = <<>>
    /\ sources = NotReturned
    /\ tokenMetadatas \in TokenLists
    /\ sellToken \in {tokenMetadatas[i] : i \in DOMAIN tokenMetadatas}
    /\ PricesIdle

PricesSpec == PricesInit /\ [][PricesNext]_vars

(***************************************************************************)
(* Properties.                                                             *)
(***************************************************************************)
ServiceRejected == serviceResult.state = "rejected"
ServiceFulfilled == serviceResult.state = "fulfilled"
HandlerDone == hPc = "done"

\* The message of a thrown value starts with INSUFFICIENT_ASSET_LIQUIDITY or
\* with NO_OPTIMAL_PATH.
IsLiquidityMessage(e) ==
    /\ e.hasMessage
    /\ \/ startsWith(e.message, <<"INSUFFICIENT_ASSET_LIQUIDITY">>)
       \/ startsWith(e.message, <<"NO_OPTIMAL_PATH">>)

\* C1: when the service call fails with an error whose message starts with
\* INSUFFICIENT_ASSET_LIQUIDITY or NO_OPTIMAL_PATH, the handler sends no
\* response and throws a ValidationError (HTTP 400, 'Validation Failed') with
\* exactly one entry, on buyAmount when the request carried one and on
\* sellAmount otherwise, with reason INSUFFICIENT_ASSET_LIQUIDITY.
C1_LiquidityErrorIsValidationError ==
    (HandlerDone /\ ServiceRejected /\ IsLiquidityMessage(serviceResult.value)) =>
        /\ responses = <<>>
        /\ Len(thrown) = 1
        /\ thrown[1].kind = "ValidationError"
        /\ thrown[1].statusCode = 400
        /\ thrown[1].reason = "Validation Failed"
        /\ Len(thrown[1].validationErrors) = 1
        /\ thrown[1].validationErrors[1].field =
              (IF req.buyAmount = UndefinedNum THEN "sellAmount" ELSE "buyAmount")
        /\ thrown[1].validationErrors[1].reason = <<"INSUFFICIENT_ASSET_LIQUIDITY">>

\* C1 witness: a request with a buyAmount whose service call failed with a
\* NO_OPTIMAL_PATH error has been answered.
C1_Witness ==
    /\ HandlerDone /\ ServiceRejected
    /\ serviceResult.value.hasMessage
    /\ serviceResult.value.message = <<"NO_OPTIMAL_PATH">>
    /\ req.buyAmount # UndefinedNum
    /\ thrown # <<>>

\* C2: if no mesh client is supplied in the dependencies, the HTTP service still
\* starts without it: once runHttpServiceAsync has run, the routes are
\* registered, the server is listening and the process has not been terminated.
C2_HttpServiceStartsWithoutMesh ==
    (appPc \in {"http", "exited", "returned"} /\ dependencies.meshClient = Undefined) =>
        /\ serverListening
        /\ ~processExited
        /\ {"/", "staking", "sra", "errorHandler"} \subseteq routes

\* C7: the order watcher is started only after the HTTP service has been started
\* and only with a mesh client in the dependencies; when its start fails, the
\* error is logged and getAppAsync still returns the app.
C7_OrderWatcherAfterHttpAndFailureCaught ==
    /\ orderWatcher # "not_started" =>
          /\ serverListening
          /\ routes # {}
          /\ dependencies.meshClient # Undefined
    /\ (orderWatcher = "failed") =>
          /\ appReturned
          /\ appPc = "returned"
          /\ \E i \in 1..Len(logs) :
                logs[i] = <<"error", "Error attempting to start Order Watcher service">>

\* C7 witness: the order watcher failed to start and the app was returned.
C7_Witness == orderWatcher = "failed" /\ appReturned /\ serverListening

\* C8: getDefaultAppDependenciesAsync creates a Mesh client if and only if
\* config.MESH_WEBSOCKET_URI is defined; when it is undefined the returned
\* dependencies have no meshClient while connection, stakingDataService,
\* orderBookService, provider and websocketOpts are populated.
C8_MeshClientIffUriDefined ==
    dependencies # None =>
        /\ (dependencies.meshClient # Undefined) <=> (MESH_WEBSOCKET_URI # Undefined)
        /\ MESH_WEBSOCKET_URI = Undefined =>
              /\ dependencies.meshClient = Undefined
              /\ dependencies.connection # Undefined
              /\ dependencies.stakingDataService # Undefined
              /\ dependencies.orderBookService # Undefined
              /\ dependencies.provider # Undefined
              /\ dependencies.websocketOpts # Undefined

\* C8 witness: dependencies were built from a config without a websocket URI.
C8_Witness == dependencies # None /\ MESH_WEBSOCKET_URI = Undefined

CalculateCalled == serviceCalls = <<"calculateSwapQuoteAsync">>

\* C3: in calculateSwapQuoteAsync with a taker address, when the eth_call of the
\* swap transaction throws or returns data that decodes as a revert, the call
\* fails with that revert error and no quote is returned, whether the gas
\* estimation is pending, succeeded or failed; when the simulation does not
\* revert, a failed gas estimation counts as 0 and the quote is returned.
C3_RevertFailsCallAndFailedEstimateIsZero ==
    (CalculateCalled /\ callPromise.state = "settled") =>
        /\ params.from # Undefined
        /\ callPromise.outcome \in {"threw", "revertData"} =>
              /\ ServiceRejected
              /\ serviceResult.value.kind = "RevertError"
              /\ serviceResult.value.decodedFrom = callPromise.outcome
              /\ responses = <<>>
              /\ HandlerDone => (Len(thrown) = 1 /\ thrown[1].kind = "RevertAPIError")
        /\ (callPromise.outcome = "data" /\ estimateGasPromise.state = "fulfilled"
              /\ estimateGasPromise.failed /\ sPc = "settled") =>
              /\ ServiceFulfilled
              /\ estimateGasPromise.value = 0
              /\ serviceResult.value.gas =
                    (swapQuote.worstCaseGas * (100 + GAS_LIMIT_BUFFER_PERCENTAGE) + 50) \div 100
              /\ HandlerDone => responses = << [status |-> 200, body |-> serviceResult.value] >>

\* C3 witness: the simulation returned revert data although the gas estimation
\* had succeeded, and the handler has finished.
C3_Witness ==
    /\ CalculateCalled /\ HandlerDone
    /\ callPromise.state = "settled" /\ callPromise.outcome = "revertData"
    /\ estimateGasPromise.state = "fulfilled" /\ ~estimateGasPromise.failed
    /\ ServiceRejected

\* C4: the gas of a quote from calculateSwapQuoteAsync is the integer nearest to
\* max(worst-case gas, node estimate when from is given) * (1 + buffer); it is
\* at least the worst-case gas and at least the node's estimate; without from
\* it is the buffered worst-case gas and no node request has been issued.
C4_GasIsBufferedMax ==
    (CalculateCalled /\ ServiceFulfilled) =>
        LET gas == serviceResult.value.gas
            worst == swapQuote.worstCaseGas
            base == IF params.from # Undefined
                    THEN (IF estimateGasPromise.value >= worst
                          THEN estimateGasPromise.value ELSE worst)
                    ELSE worst
            exact100 == base * (100 + GAS_LIMIT_BUFFER_PERCENTAGE)
        IN  /\ gas \in Int
            /\ 100 * gas - exact100 <= 50
            /\ exact100 - 100 * gas <= 50
            /\ gas >= worst
            /\ params.from # Undefined => gas >= estimateGasPromise.value
            /\ params.from = Undefined =>
                  /\ nodeRequests = <<>>
                  /\ estimateGasPromise.state = "none"
                  /\ callPromise.state = "none"

\* C4 witness: a quote with a taker address whose node estimate is below the
\* worst-case gas of the quote, with a buffer that shows.
C4_Witness ==
    /\ CalculateCalled /\ ServiceFulfilled
    /\ params.from # Undefined
    /\ estimateGasPromise.value < swapQuote.worstCaseGas
    /\ serviceResult.value.gas > swapQuote.worstCaseGas

\* The calldata the selected service method started from.
OriginalCalldata ==
    IF serviceCalls = <<"getSwapQuoteForWrapAsync">> THEN <<"0", "x", "d", "0">>
    ELSE IF serviceCalls = <<"getSwapQuoteForUnwrapAsync">>
    THEN <<"0", "x", "2", "e",
           ToString(IF req.buyAmount # UndefinedNum THEN req.buyAmount[1] ELSE req.sellAmount[1])>>
    ELSE calldata.calldataHexString

\* C5: for swap, wrap and unwrap quotes the returned data is the original
\* calldata, unchanged, followed by the encoding of
\* ZeroExAPIAffiliate(affiliate, timestamp) without its "0x", the affiliate
\* being the request's affiliateAddress when present and FEE_RECIPIENT_ADDRESS
\* otherwise; in calculateSwapQuoteAsync every transaction sent to the node for
\* revert detection and gas estimation carries the data the response returns.
C5_DataIsCalldataThenAffiliate ==
    /\ ServiceFulfilled =>
          LET data == serviceResult.value.data
              n == Len(OriginalCalldata)
              affiliate == IF req.affiliateAddress # Undefined
                           THEN req.affiliateAddress ELSE "0xfeerecipient"
          IN  /\ Len(data) = n + 4
              /\ SubSeq(data, 1, n) = OriginalCalldata
              /\ \E timestamp \in ClockValues :
                    SubSeq(data, n + 1, n + 4) = <<"a", "f", affiliate, ToString(timestamp)>>
              /\ \A i \in 1..Len(nodeRequests) :
                    nodeRequests[i].method \in {"eth_call", "eth_estimateGas"} =>
                        nodeRequests[i].txData.data = data
    /\ \A i \in 1..Len(nodeRequests) :
          nodeRequests[i].method \in {"eth_call", "eth_estimateGas"} =>
              nodeRequests[i].txData.data = affiliatedData

\* C5 witness: a swap quote without affiliateAddress was returned after a
\* simulation and a gas estimation on the node.
C5_Witness ==
    /\ CalculateCalled /\ ServiceFulfilled
    /\ req.affiliateAddress = Undefined
    /\ Len(nodeRequests) >= 2

\* C6: a request that passes validation and whose service call succeeds is
\* answered with HTTP 200 and the quote the service returned; every finished
\* request has exactly one outcome, a 200 response or an error thrown to the
\* error handler, and an unfinished one has none.
C6_ExactlyOneOutcome ==
    /\ (HandlerDone /\ ServiceFulfilled) =>
          /\ responses = << [status |-> 200, body |-> serviceResult.value] >>
          /\ thrown = <<>>
    /\ HandlerDone =>
          /\ Len(responses) + Len(thrown) = 1
          /\ \A i \in 1..Len(responses) : responses[i].status = 200
    /\ ~HandlerDone => (responses = <<>> /\ thrown = <<>>)

\* C6 witness: a wrap request was answered with a quote.
C6_Witness ==
    /\ HandlerDone /\ ServiceFulfilled
    /\ serviceCalls = <<"getSwapQuoteForWrapAsync">>
    /\ Len(responses) = 1

\* C9: every error of the service call leaves the handler as an API error: an
\* API error unchanged, else a revert error as RevertAPIError, else a liquidity
\* message as ValidationError on the amount field, else an asset-unavailable
\* message as ValidationError on 'token' with the message, else
\* InternalServerError; no other error escapes the handler.
C9_EveryServiceErrorBecomesApiError ==
    (HandlerDone /\ ServiceRejected) =>
        LET e == serviceResult.value IN
        /\ Len(thrown) = 1
        /\ thrown[1].isAPIError
        /\ e.isAPIError => thrown[1] = e
        /\ (~e.isAPIError /\ e.isRevertError) =>
              (thrown[1].kind = "RevertAPIError" /\ thrown[1].cause = e)
        /\ (~e.isAPIError /\ ~e.isRevertError /\ IsLiquidityMessage(e)) =>
              /\ thrown[1].kind = "ValidationError"
              /\ thrown[1].validationErrors[1].field \in {"buyAmount", "sellAmount"}
        /\ (~e.isAPIError /\ ~e.isRevertError /\ ~IsLiquidityMessage(e)
              /\ e.hasMessage /\ startsWith(e.message, <<"ASSET_UNAVAILABLE">>)) =>
              /\ thrown[1].kind = "ValidationError"
              /\ thrown[1].validationErrors[1].field = "token"
              /\ thrown[1].validationErrors[1].reason = e.message
        /\ (~e.isAPIError /\ ~e.isRevertError /\ ~IsLiquidityMessage(e)
              /\ ~(e.hasMessage /\ startsWith(e.message, <<"ASSET_UNAVAILABLE">>))) =>
              thrown[1].kind = "InternalServerError"

\* The method the request's tokens select: unwrap for WETH to ETH, wrap for ETH
\* to WETH, the swap otherwise.
ExpectedMethod ==
    IF req.sellToken \in {"WETH", "0xweth"} /\ req.buyToken = "ETH"
    THEN "getSwapQuoteForUnwrapAsync"
    ELSE IF req.sellToken = "ETH" /\ req.buyToken \in {"WETH", "0xweth"}
    THEN "getSwapQuoteForWrapAsync"
    ELSE "calculateSwapQuoteAsync"

\* C10: a request that passes validation invokes exactly one SwapService
\* method, the one its tokens select; a request that fails parsing or
\* validation invokes none.
C10_ExactlyOneServiceMethod ==
    hPc # "idle" =>
        /\ ValidationFailure(req) = None => serviceCalls = <<ExpectedMethod>>
        /\ ValidationFailure(req) # None =>
              (serviceCalls = <<>> /\ sPc = "idle" /\ quoterCalls = <<>>
                 /\ nodeRequests = <<>> /\ gasPriceCalls = 0)
        /\ serviceCalls # <<"calculateSwapQuoteAsync">> =>
              (quoterCalls = <<>> /\ consumerCalls = <<>> /\ nodeRequests = <<>>)
        /\ serviceCalls = <<"calculateSwapQuoteAsync">> => gasPriceCalls = 0

\* C10 witness: an unwrap request named by the WETH address was handled.
C10_Witness ==
    /\ HandlerDone
    /\ req.sellToken = "0xweth" /\ req.buyToken = "ETH"
    /\ serviceCalls = <<"getSwapQuoteForUnwrapAsync">>

\* C12: calculateSwapQuoteAsync calls the quoter exactly once, for a market-sell
\* quote of sellAmount when sellAmount is defined (also when buyAmount is
\* defined as well) and for a market-buy quote of buyAmount when only buyAmount
\* is defined; with neither amount it fails with 'sellAmount or buyAmount
\* required' and has called neither the quoter, the consumer nor the node.
C12_OneQuoterCallByAmount ==
    (CalculateCalled /\ sPc # "idle") =>
        /\ params.sellAmount # <<>> =>
              quoterCalls = << [method |-> "getMarketSellSwapQuoteAsync",
                                amount |-> params.sellAmount] >>
        /\ (params.sellAmount = <<>> /\ params.buyAmount # <<>>) =>
              quoterCalls = << [method |-> "getMarketBuySwapQuoteAsync",
                                amount |-> params.buyAmount] >>
        /\ (params.sellAmount = <<>> /\ params.buyAmount = <<>>) =>
              /\ quoterCalls = <<>> /\ consumerCalls = <<>> /\ nodeRequests = <<>>
              /\ ServiceRejected
              /\ serviceResult.value.kind = "Error"
              /\ serviceResult.value.message = <<"sellAmount", "or", "buyAmount", "required">>
        /\ ServiceFulfilled => Len(quoterCalls) = 1

\* C12 witness: a quote was returned for params with both amounts defined.
C12_Witness ==
    /\ CalculateCalled /\ ServiceFulfilled
    /\ params.sellAmount # <<>> /\ params.buyAmount # <<>>
    /\ Len(quoterCalls) = 1

\* The requests sent to the node with the given method.
NodeRequestsOf(method) == {i \in 1..Len(nodeRequests) : nodeRequests[i].method = method}

\* C13: calculateSwapQuoteAsync asks the consumer for the Forwarder exactly when
\* isETHSell is true; the balance of from is queried only with the Forwarder
\* and a from address, and then the value of the simulated transaction is
\* min(ethAmount, balance); otherwise the simulated value is the ethAmount;
\* without from nothing is simulated; the value of the response is always the
\* full ethAmount.
C13_ForwarderValueIsMinOfBalance ==
    (CalculateCalled /\ calldata # None) =>
        LET forwarder == params.isETHSell
            simulated == NodeRequestsOf("eth_call") \cup NodeRequestsOf("eth_estimateGas")
        IN  /\ consumerCalls = << [useExtensionContract |->
                                     IF forwarder THEN "Forwarder" ELSE "None"] >>
            /\ NodeRequestsOf("eth_getBalance") # {} <=> (forwarder /\ params.from # Undefined)
            /\ Cardinality(NodeRequestsOf("eth_getBalance")) <= 1
            /\ \A i \in NodeRequestsOf("eth_getBalance") : nodeRequests[i].address = params.from
            /\ params.from = Undefined => simulated = {}
            /\ \A i \in simulated :
                  /\ (forwarder /\ calldata.ethAmount <= balanceInWei[1]) =>
                        nodeRequests[i].txData.value = calldata.ethAmount
                  /\ (forwarder /\ calldata.ethAmount > balanceInWei[1]) =>
                        nodeRequests[i].txData.value = balanceInWei[1]
                  /\ ~forwarder =>
                        (nodeRequests[i].txData.value = calldata.ethAmount /\ balanceInWei = <<>>)
            /\ ServiceFulfilled => serviceResult.value.value = calldata.ethAmount

\* C13 witness: an ETH sale was quoted for a taker whose balance is below the
\* ethAmount of the quote, so that the simulated value and the returned value differ.
C13_Witness ==
    /\ CalculateCalled /\ ServiceFulfilled
    /\ params.isETHSell /\ params.from # Undefined
    /\ balanceInWei # <<>> /\ balanceInWei[1] < calldata.ethAmount
    /\ serviceResult.value.value = calldata.ethAmount
    /\ \E i \in NodeRequestsOf("eth_call") : nodeRequests[i].txData.value = balanceInWei[1]

WrapCalled == serviceCalls = <<"getSwapQuoteForWrapAsync">>
UnwrapCalled == serviceCalls = <<"getSwapQuoteForUnwrapAsync">>

\* C14: getSwapQuoteForWrapAsync and getSwapQuoteForUnwrapAsync call neither
\* the quoter, the consumer nor the node; their quote has price and
\* guaranteedPrice 1, buyAmount and sellAmount the requested amount
\* (buyAmount when given, else sellAmount), protocolFee 0, no sources and no
\* orders, to the WETH contract, value the amount for a wrap and 0 for an
\* unwrap, gas WRAP_QUOTE_GAS resp. UNWRAP_QUOTE_GAS and the provided gas
\* price; the gas price estimator is asked only when no gas price was
\* provided; with neither amount they fail with 'sellAmount or buyAmount
\* required'.
C14_WethQuoteIsFixed ==
    (WrapCalled \/ UnwrapCalled) =>
        LET amount == IF params.buyAmount # <<>> THEN params.buyAmount ELSE params.sellAmount
            q == serviceResult.value
        IN  /\ quoterCalls = <<>> /\ consumerCalls = <<>> /\ nodeRequests = <<>>
            /\ amount = <<>> =>
                  /\ ServiceRejected
                  /\ q.kind = "Error"
                  /\ q.message = <<"sellAmount", "or", "buyAmount", "required">>
            /\ gasPriceCalls = (IF amount # <<>> /\ params.gasPrice = <<>> THEN 1 ELSE 0)
            /\ ServiceFulfilled =>
                  /\ amount # <<>>
                  /\ q.price = <<1, 1>> /\ q.guaranteedPrice = <<1, 1>>
                  /\ q.buyAmount = amount[1] /\ q.sellAmount = amount[1]
                  /\ q.protocolFee = 0
                  /\ q.sources = <<>> /\ q.orders = <<>>
                  /\ q.to = "0xweth"
                  /\ q.value = (IF WrapCalled THEN amount[1] ELSE 0)
                  /\ q.gas = (IF WrapCalled THEN 30000 ELSE 60000)
                  /\ params.gasPrice # <<>> => q.gasPrice = params.gasPrice[1]

\* C14 witness: an unwrap of a nonzero amount, given as sellAmount, was quoted
\* with the provided gas price.
C14_Witness ==
    /\ UnwrapCalled /\ ServiceFulfilled
    /\ params.buyAmount = <<>> /\ params.sellAmount # <<>> /\ params.sellAmount[1] > 0
    /\ params.gasPrice # <<>>
    /\ serviceResult.value.value = 0

\* The addresses the request's tokens resolve to (ETH resolves to WETH).
ResolvedAddress(t) ==
    IF t \in {"ETH", "WETH", "0xweth"} THEN "0xweth"
    ELSE IF t \in {"DAI", "0xdai"} THEN "0xdai"
    ELSE "unknown"
RequestIsWrap == req.sellToken = "ETH" /\ req.buyToken \in {"WETH", "0xweth"}
RequestIsUnwrap == req.sellToken \in {"WETH", "0xweth"} /\ req.buyToken = "ETH"
TokensResolve ==
    /\ req.schemaValid
    /\ ResolvedAddress(req.sellToken) # "unknown"
    /\ ResolvedAddress(req.buyToken) # "unknown"

\* C15: a request whose sellToken and buyToken resolve to the same address and
\* that is neither a wrap nor an unwrap is answered with a ValidationError of
\* exactly two entries, for 'buyToken' and 'sellToken', with reason 'buyToken
\* and sellToken must be different', and no service method is called; a wrap
\* or an unwrap is never rejected by this check.
C15_SameTokenIsRejectedUnlessWrap ==
    (hPc # "idle" /\ TokensResolve
       /\ ResolvedAddress(req.sellToken) = ResolvedAddress(req.buyToken)) =>
        /\ (~RequestIsWrap /\ ~RequestIsUnwrap) =>
              /\ HandlerDone /\ serviceCalls = <<>> /\ responses = <<>>
              /\ Len(thrown) = 1
              /\ thrown[1].kind = "ValidationError"
              /\ Len(thrown[1].validationErrors) = 2
              /\ thrown[1].validationErrors[1].field = "buyToken"
              /\ thrown[1].validationErrors[2].field = "sellToken"
              /\ \A i \in 1..2 : thrown[1].validationErrors[i].reason =
                    <<"buyToken", "and", "sellToken", "must", "be", "different">>
        /\ (RequestIsWrap \/ RequestIsUnwrap) =>
              /\ Len(serviceCalls) = 1
              /\ \A i \in 1..Len(thrown) :
                    ~(thrown[i].kind = "ValidationError"
                        /\ Len(thrown[i].validationErrors) = 2)

\* C15 witness: a request selling ETH for ETH was rejected.
C15_Witness ==
    /\ HandlerDone /\ req.schemaValid
    /\ req.sellToken = "ETH" /\ req.buyToken = "ETH"
    /\ Len(thrown) = 1

\* C16: a request whose buyToken is ETH and whose sellToken is not WETH (by
\* symbol or address) is answered with a ValidationError and no service method
\* is called; when the two tokens resolve to different addresses the error
\* has one entry, on 'buyToken' with code TokenNotSupported; the only request
\* with buyToken ETH for which a service method is called is the unwrap.
C16_BuyingEthIsRejected ==
    (hPc # "idle" /\ req.buyToken = "ETH") =>
        /\ req.sellToken \notin {"WETH", "0xweth"} =>
              /\ HandlerDone /\ serviceCalls = <<>> /\ responses = <<>>
              /\ sPc = "idle" /\ quoterCalls = <<>>
              /\ Len(thrown) = 1
              /\ thrown[1].kind = "ValidationError"
              /\ (TokensResolve
                    /\ ResolvedAddress(req.sellToken) # ResolvedAddress(req.buyToken)) =>
                    /\ Len(thrown[1].validationErrors) = 1
                    /\ thrown[1].validationErrors[1].field = "buyToken"
                    /\ thrown[1].validationErrors[1].code = "TokenNotSupported"
        /\ serviceCalls # <<>> =>
              /\ req.sellToken \in {"WETH", "0xweth"}
              /\ serviceCalls = <<"getSwapQuoteForUnwrapAsync">>

\* C16 witness: a request selling DAI for ETH was rejected.
C16_Witness ==
    /\ HandlerDone /\ req.schemaValid
    /\ req.sellToken = "DAI" /\ req.buyToken = "ETH"
    /\ Len(thrown) = 1 /\ serviceCalls = <<>>

\* C17: _estimateGasOrThrowRevertErrorAsync sends the gas estimation and the
\* eth_call together, with the same transaction, before either settles; once
\* both have settled the outcome of the call is fixed by their two results
\* whatever the order: the revert error when the simulation reverts, else the
\* quote with the estimate, 0 for a rejected estimation; a rejected
\* estimation is never the error of the call and never an unhandled
\* rejection, also when it settles after the simulation has thrown.
C17_EstimateConcurrentAndNeverSurfaces ==
    /\ unhandledRejections = <<>>
    /\ (estimateGasPromise.state = "none") <=> (callPromise.state = "none")
    /\ \A i \in NodeRequestsOf("eth_estimateGas") :
          /\ i + 1 \in NodeRequestsOf("eth_call")
          /\ nodeRequests[i + 1].txData = nodeRequests[i].txData
    /\ (ServiceRejected /\ callPromise.state # "none") =>
          /\ callPromise.state = "settled"
          /\ callPromise.outcome \in {"threw", "revertData"}
          /\ serviceResult.value.kind = "RevertError"
    /\ (callPromise.state = "settled" /\ estimateGasPromise.state # "pending"
          /\ sPc = "settled") =>
          IF callPromise.outcome \in {"threw", "revertData"}
          THEN /\ ServiceRejected
               /\ serviceResult.value.kind = "RevertError"
               /\ serviceResult.value.decodedFrom = callPromise.outcome
          ELSE /\ ServiceFulfilled
               /\ estimateGasPromise.state = "fulfilled"
               /\ estimateGasPromise.failed => estimateGasPromise.value = 0
               /\ LET base == IF estimateGasPromise.value >= swapQuote.worstCaseGas
                               THEN estimateGasPromise.value ELSE swapQuote.worstCaseGas
                  IN  serviceResult.value.gas =
                         (base * (100 + GAS_LIMIT_BUFFER_PERCENTAGE) + 50) \div 100

\* C17 witness: the simulation threw while the gas estimation was pending, the
\* call failed with the revert error, and the estimation was rejected afterwards.
C17_Witness ==
    /\ sPc = "settled" /\ ServiceRejected
    /\ callPromise.state = "settled" /\ callPromise.outcome = "threw"
    /\ estimateGasPromise.state = "fulfilled" /\ estimateGasPromise.failed
    /\ estimateGasPromise.settledAt = "settled"
    /\ unhandledRejections = <<>>

\* num / den in units of 10^-dp, rounded half up.
RoundedRatio(num, den, dp) == (2 * num * 10 ^ dp + den) \div (2 * den)
\* The fraction price has the value units * 10^-dp.
HasValue(price, units, dp) == price[1] * 10 ^ dp = units * price[2]
\* Buy-token units per sell-token unit of a quote info, to the sell token's
\* decimal places, and sell-token units per buy-token unit, to the buy token's.
MakerPerTaker(info) ==
    RoundedRatio(info.makerAssetAmount * 10 ^ sellTokenDecimals[1],
                 info.totalTakerAssetAmount * 10 ^ buyTokenDecimals[1],
                 sellTokenDecimals[1])
TakerPerMaker(info) ==
    RoundedRatio(info.totalTakerAssetAmount * 10 ^ buyTokenDecimals[1],
                 info.makerAssetAmount * 10 ^ sellTokenDecimals[1],
                 buyTokenDecimals[1])
InDirectionOfQuote(price, info) ==
    IF quoterCalls[1].method = "getMarketSellSwapQuoteAsync"
    THEN HasValue(price, MakerPerTaker(info), sellTokenDecimals[1])
    ELSE HasValue(price, TakerPerMaker(info), buyTokenDecimals[1])

\* C11: the price of a quote from calculateSwapQuoteAsync is in the direction
\* of the quote asked of the quoter, buy-token units per sell-token unit
\* (maker amount / taker amount) for a market-sell quote and sell-token units
\* per buy-token unit (taker amount / maker amount) for a market-buy quote,
\* whatever amounts are defined; price is computed from the best-case quote
\* info and guaranteedPrice from the worst-case quote info.
C11_PriceInDirectionOfQuote ==
    (CalculateCalled /\ ServiceFulfilled) =>
        /\ InDirectionOfQuote(serviceResult.value.price, swapQuote.bestCaseQuoteInfo)
        /\ InDirectionOfQuote(serviceResult.value.guaranteedPrice,
                              swapQuote.worstCaseQuoteInfo)


\* The name under which a source is reported.
ReportedName(source) == IF source = "Native" THEN "0x" ELSE source
\* A proportion of at most 100000 hundred-thousandths, rounded half up to four
\* significant digits.
RoundedToSigDigits(proportion) ==
    IF proportion < 10000 THEN proportion
    ELSE IF proportion < 100000 THEN ((proportion + 5) \div 10) * 10
    ELSE ((proportion + 50) \div 100) * 100
\* The sources array has one entry for every ERC20BridgeSource value and every
\* further key of the breakdown, and the entry of a key has the proportion
\* Reported(key, p) when the breakdown holds p for it, else 0.
OneEntryPerSource(Reported(_, _)) ==
    LET all == {ERC20BridgeSource[i] : i \in DOMAIN ERC20BridgeSource}
                 \cup {sourceBreakdown[j][1] : j \in DOMAIN sourceBreakdown}
    IN  /\ Len(sources.value) = Cardinality(all)
        /\ \A key \in all :
              \E i \in DOMAIN sources.value :
                /\ sources.value[i].name = ReportedName(key)
                /\ \/ \E j \in DOMAIN sourceBreakdown :
                          /\ sourceBreakdown[j][1] = key
                          /\ sources.value[i].proportion = Reported(key, sourceBreakdown[j][2])
                   \/ /\ \A j \in DOMAIN sourceBreakdown : sourceBreakdown[j][1] # key
                      /\ sources.value[i].proportion = 0
AsGiven(key, proportion) == proportion
Rounded(key, proportion) == RoundedToSigDigits(proportion)

\* C19: the sources array has exactly one entry for every ERC20BridgeSource
\* value and every further key of the quoter's breakdown; a source absent from
\* the breakdown has proportion 0, a source present has the quoter's proportion
\* rounded to PERCENTAGE_SIG_DIGITS significant digits, and Native is reported
\* under the name '0x'.
C19_SourcesOnePerSourceRounded ==
    sources.returned => OneEntryPerSource(Rounded)

\* C19 as stated: a source present has the quoter's proportion itself.
C19_SourcesOnePerSourceAsGiven ==
    sources.returned => OneEntryPerSource(AsGiven)

\* The array of a breakdown that holds Native, a key outside ERC20BridgeSource
\* and a proportion of more than four significant digits.
C19_Witness ==
    /\ sources.returned
    /\ \E i, j \in DOMAIN sourceBreakdown :
          /\ sourceBreakdown[i][1] = "Native"
          /\ sourceBreakdown[i][2] = 66667
          /\ sourceBreakdown[j][1] = "MultiBridge"
    /\ \E k \in DOMAIN sources.value :
          sources.value[k].name = "0x" /\ sources.value[k].proportion = 66670

\* The ERC20 asset data of the token of the list with a symbol.
AssetDataOfSymbol(symbol) ==
    LET i == CHOOSE i \in DOMAIN tokenMetadatas : tokenMetadatas[i].symbol = symbol
    IN  <<"0xf47261b0">> \o tokenMetadatas[i].tokenAddress
DecimalsOfSymbol(symbol) ==
    LET i == CHOOSE i \in DOMAIN tokenMetadatas : tokenMetadatas[i].symbol = symbol
    IN  tokenMetadatas[i].decimals
\* The i-th quote of the flattened results is a quote for the i-th queried token.
ResultsBelongToQueriedTokens ==
    \A i \in DOMAIN allResults :
        allResults[i] # None =>
            /\ i \in DOMAIN queryAssetData
            /\ allResults[i].makerAssetData = AssetDataOfSymbol(queryAssetData[i].symbol)
\* Every record pairs a symbol with the price of a quote for that token.
RecordsPairedWithOwnQuote ==
    \A k \in DOMAIN prices.value :
        \E j \in DOMAIN allResults :
            /\ allResults[j] # None
            /\ allResults[j].makerAssetData = AssetDataOfSymbol(prices.value[k].symbol)
            /\ prices.value[k].price =
                  TokenPrice(allResults[j], DecimalsOfSymbol(prices.value[k].symbol),
                             sellToken.decimals)

\* C18: every record returned by getTokenPricesAsync pairs a symbol with the
\* price computed from the quote of that same token: the sell token is neither
\* queried nor listed, there is one record per defined quote, and the i-th
\* quote of the flattened chunk results belongs to the i-th queried token,
\* whatever the number of tokens and whatever the quoter returns per chunk.
C18_RecordsPairedWithQuoteOfSameToken ==
    prices.state = "fulfilled" =>
        /\ \A c \in DOMAIN batchCalls : \A i \in DOMAIN batchCalls[c].makerAssetDatas :
              batchCalls[c].makerAssetDatas[i] # AssetDataOfSymbol(sellToken.symbol)
        /\ \A k \in DOMAIN prices.value : prices.value[k].symbol # sellToken.symbol
        /\ Len(prices.value) =
              Cardinality({i \in DOMAIN allResults : allResults[i] # None})
        /\ ResultsBelongToQueriedTokens
        /\ RecordsPairedWithOwnQuote
====
